---- MODULE Spec2Model ----
(***************************************************************************)
(* Model of distance_matrix_f.py: one press of the "Calculate" button of   *)
(* the travel time and distance calculator.  The script validates its      *)
(* inputs, builds the mapping-service client, reads the uploaded table,    *)
(* checks its columns, issues one blocking query per row and handles the   *)
(* response, and finally offers the collected records for download.        *)
(***************************************************************************)
EXTENDS Integers, Sequences, FiniteSets, TLC

\* Largest number of data rows of an uploaded table.
MaxRows == 2
\* Number of calendar days the run may span (date.today() ranges over 1..MaxDay).
MaxDay == 2

VARIABLES
    pc,             \* position of the script
    uploaded_file,  \* <<>> (nothing uploaded) or <<file>>
    mode,           \* selected travel mode
    api_key,        \* text of the key field, a sequence of characters
    today,          \* the calendar date date.today() returns (an ordinal)
    gmaps,          \* "unbound" or "client"
    df,             \* <<>> (name unbound) or <<table>>
    results,        \* the list `results`
    idx,            \* index label of the row iterrows() is at (0-based)
    cur,            \* the row in hand: <<>> or <<[origin, destination, departure_datetime]>>
    response,       \* the call in hand: <<>> or <<what distance_matrix returned or raised>>
    queries,        \* the calls the mapping service has received, in order
    messages,       \* st.error / st.warning / st.info calls, in order
    download        \* <<>> or <<csv offered by st.download_button>>

vars == <<pc, uploaded_file, mode, api_key, today, gmaps, df, results, idx,
          cur, response, queries, messages, download>>

----------------------------------------------------------------------------
(* Widgets and the uploaded file                                           *)

Modes == {"driving", "walking", "bicycling", "transit"}

required_cols == <<"OriginLat", "OriginLon", "DestLat", "DestLon", "endTime">>

Required == {required_cols[i] : i \in 1..Len(required_cols)}

\* Texts of the key field: empty, blank, and a key with blanks around it.
Keys == {<<>>, <<" ", " ">>, <<" ", "k", " ">>}

Whitespace == {" "}

RECURSIVE LStrip(_)
LStrip(s) ==
    IF s # <<>> /\ Head(s) \in Whitespace THEN LStrip(Tail(s)) ELSE s

RECURSIVE RStrip(_)
RStrip(s) ==
    IF s # <<>> /\ s[Len(s)] \in Whitespace
    THEN RStrip(SubSeq(s, 1, Len(s) - 1))
    ELSE s

\* The key compared as typed.
Strip_Unstripped(s) == s

\* str.strip()
Strip(s) == RStrip(LStrip(s))

\* endTime cells: two timestamps that differ in their date only, one with
\* another time of day, and one text no parser accepts.
EndTimes == {"2023-01-01 14:30:00", "2023-01-02 14:30:00",
             "2023-01-01 09:15:07", "not a time"}

\* pd.to_datetime on a cell: <<>> when it raises, else <<Timestamp>>,
\* the date an ordinal (2023-01-01 is day 1).
to_datetime(s) ==
    CASE s = "2023-01-01 14:30:00" ->
            <<[date |-> 1, hour |-> 14, minute |-> 30, second |-> 0]>>
      [] s = "2023-01-02 14:30:00" ->
            <<[date |-> 2, hour |-> 14, minute |-> 30, second |-> 0]>>
      [] s = "2023-01-01 09:15:07" ->
            <<[date |-> 1, hour |-> 9, minute |-> 15, second |-> 7]>>
      [] OTHER -> <<>>

\* Timestamp.time(): the time of day, the date dropped.
TimeOf(ts) == [hour |-> ts.hour, minute |-> ts.minute, second |-> ts.second]

\* The date of the first day of the run, whatever day it is by now.
Combine_FrozenDate(d, t) ==
    [date |-> 1, hour |-> t.hour, minute |-> t.minute, second |-> t.second]

\* datetime.combine(date, time)
Combine(d, t) ==
    [date |-> d, hour |-> t.hour, minute |-> t.minute, second |-> t.second]

\* A data row of a table with columns cs whose endTime cell is e.
RowOf(cs, e) ==
    [c \in cs |->
        CASE c = "OriginLat" -> 23
          [] c = "OriginLon" -> 90
          [] c = "DestLat"   -> 24
          [] c = "DestLon"   -> 91
          [] c = "endTime"   -> e
          [] OTHER           -> 0]

SeqsUpTo(S, n) == UNION {[1..k -> S] : k \in 0..n}

\* Column sets: every subset of the required columns, and the required
\* columns with one more.
ColumnSets == (SUBSET Required) \cup {Required \cup {"Notes"}}

RowsFor(cs) ==
    IF cs = Required
    THEN SeqsUpTo({RowOf(cs, e) : e \in EndTimes}, MaxRows)
    ELSE SeqsUpTo({RowOf(cs, "2023-01-01 14:30:00")}, MaxRows)

Tables ==
    UNION {{[parses |-> TRUE, columns |-> cs, rows |-> rs] : rs \in RowsFor(cs)}
           : cs \in ColumnSets}

\* A file pd.read_csv cannot parse.
BadFile == [parses |-> FALSE, columns |-> {}, rows |-> <<>>]

Files == Tables \cup {BadFile}

----------------------------------------------------------------------------
(* What the mapping service can answer                                     *)

GoodDistance == [text |-> "5.0 km", value |-> 5000]
GoodDuration == [text |-> "10 mins", value |-> 600]
GoodTraffic  == [text |-> "13 mins", value |-> 750]

\* A field of an element: a dict with text and value, or with one missing.
DistanceFields == {GoodDistance, [text |-> "5.0 km"]}
DurationFields == {GoodDuration, [value |-> 600]}
TrafficFields  == {GoodTraffic, [text |-> "13 mins"]}

Opt(S) == {<<>>} \cup {<<x>> : x \in S}

\* An element is a dict; keys are present or absent.  The last element of
\* Elements has no status key.
MkElement(st, di, du, tr) ==
    [k \in ({"status"} \cup (IF di = <<>> THEN {} ELSE {"distance"})
                       \cup (IF du = <<>> THEN {} ELSE {"duration"})
                       \cup (IF tr = <<>> THEN {} ELSE {"duration_in_traffic"}))
       |-> CASE k = "status" -> st
             [] k = "distance" -> di[1]
             [] k = "duration" -> du[1]
             [] k = "duration_in_traffic" -> tr[1]]

Elements ==
    {MkElement("OK", di, du, tr) :
        di \in Opt(DistanceFields), du \in Opt(DurationFields),
        tr \in Opt(TrafficFields)}
    \cup {MkElement("ZERO_RESULTS", <<>>, <<>>, <<>>)}
    \cup {[duration |-> GoodDuration]}

\* What a call of distance_matrix yields: an exception, a response whose
\* rows are empty, or a response with one element.
Raised == [raised |-> TRUE, rows |-> <<>>]

Returned(rows) == [raised |-> FALSE, rows |-> rows]

Responses ==
    {Raised, Returned(<<>>)}
    \cup {Returned(<<[elements |-> <<el>>]>>) : el \in Elements}

----------------------------------------------------------------------------
(* Helpers of the row loop                                                 *)

\* d[k] on a dict: <<>> stands for the KeyError.
Subscript(d, k) == IF k \in DOMAIN d THEN <<d[k]>> ELSE <<>>

\* dict.get(k): <<>> stands for None.
Get(d, k) == IF k \in DOMAIN d THEN <<d[k]>> ELSE <<>>

\* f"{lat},{lon}"
FormatPair(lat, lon) == <<lat, ",", lon>>

Msg(kind, text, row, names) ==
    [kind |-> kind, text |-> text, row |-> row, names |-> names]

\* any() in place of all().
AllRequiredPresent_Any(columns) ==
    \E i \in 1..Len(required_cols) : required_cols[i] \in columns

\* The guard of line 45.
AllRequiredPresent(columns) ==
    \A i \in 1..Len(required_cols) : required_cols[i] \in columns

\* The message naming the columns the table lacks.
ColumnsError_OnlyMissing ==
    Msg("error", "CSV file must contain columns", <<>>,
        SelectSeq(required_cols, LAMBDA c : c \notin df[1].columns))

\* The message of line 46.
ColumnsError == Msg("error", "CSV file must contain columns", <<>>, required_cols)

\* response['rows'][0]['elements'][0]; <<>> when a subscript raises.
FirstElement(resp) ==
    IF resp.rows = <<>> THEN <<>>
    ELSE IF resp.rows[1].elements = <<>> THEN <<>>
    ELSE <<resp.rows[1].elements[1]>>

\* The traffic field whenever it is present, whatever the mode.
DurationKey_AnyMode(m, element) ==
    IF "duration_in_traffic" \in DOMAIN element
    THEN "duration_in_traffic"
    ELSE "duration"

\* Lines 89-94: the key of the element the duration is read from.
DurationKey(m, element) ==
    IF m = "driving" /\ "duration_in_traffic" \in DOMAIN element
    THEN "duration_in_traffic"
    ELSE "duration"

\* The default also for a distance field that lacks its text or value.
ReadDistance_Lenient(element) ==
    IF "distance" \in DOMAIN element /\ {"text", "value"} \subseteq DOMAIN element["distance"]
    THEN <<[text |-> element["distance"].text, value |-> <<element["distance"].value>>]>>
    ELSE <<[text |-> "N/A", value |-> <<>>]>>

\* Lines 85-86: <<>> when a subscript raises, else <<[text, value]>>, the
\* value <<>> for None.
ReadDistance(element) ==
    IF "distance" \in DOMAIN element
    THEN LET t == Subscript(element["distance"], "text")
             v == Subscript(element["distance"], "value")
         IN  IF t = <<>> \/ v = <<>> THEN <<>>
             ELSE <<[text |-> t[1], value |-> v]>>
    ELSE <<[text |-> "N/A", value |-> <<>>]>>

\* Lines 89-94: <<>> when a subscript raises, else <<[text, value]>>.
ReadDuration(m, element) ==
    LET f == Subscript(element, DurationKey(m, element))
    IN  IF f = <<>> THEN <<>>
        ELSE LET t == Subscript(f[1], "text")
                 v == Subscript(f[1], "value")
             IN  IF t = <<>> \/ v = <<>> THEN <<>>
                 ELSE <<[text |-> t[1], value |-> v[1]]>>

\* Lines 96-104.
MkRecord(c, dist, dur) ==
    [Origin           |-> c.origin,
     Destination      |-> c.destination,
     Departure_Time   |-> c.departure_datetime,
     Distance_text    |-> dist.text,
     Distance_meters  |-> dist.value,
     Duration_text    |-> dur.text,
     Duration_seconds |-> dur.value]

\* A status that is not OK raises like a missing field does.
Extract_StatusRaises(resp, m, c) ==
    LET el == FirstElement(resp)
    IN  IF el = <<>> \/ Get(el[1], "status") # <<"OK">>
        THEN [kind |-> "error", rec |-> <<>>]
        ELSE LET dist == ReadDistance(el[1])
                 dur  == ReadDuration(m, el[1])
             IN  IF dist = <<>> \/ dur = <<>>
                 THEN [kind |-> "error", rec |-> <<>>]
                 ELSE [kind |-> "record", rec |-> <<MkRecord(c, dist[1], dur[1])>>]

\* Lines 79-106 on a response that was returned: what the try block does.
Extract(resp, m, c) ==
    LET el == FirstElement(resp)
    IN  IF el = <<>> THEN [kind |-> "error", rec |-> <<>>]
        ELSE IF Get(el[1], "status") # <<"OK">>
        THEN [kind |-> "warning", rec |-> <<>>]
        ELSE LET dist == ReadDistance(el[1])
                 dur  == ReadDuration(m, el[1])
             IN  IF dist = <<>> \/ dur = <<>>
                 THEN [kind |-> "error", rec |-> <<>>]
                 ELSE [kind |-> "record", rec |-> <<MkRecord(c, dist[1], dur[1])>>]

\* result_df.to_csv(index=False): the header line and one line per record;
\* a cell holding a comma is quoted, None is the empty cell.
CsvHeader ==
    <<"Origin", "Destination", "Departure_Time", "Distance (text)",
      "Distance (meters)", "Duration (text)", "Duration (seconds)">>

CsvLine(r) ==
    <<[quoted |-> TRUE,  cell |-> r.Origin],
      [quoted |-> TRUE,  cell |-> r.Destination],
      [quoted |-> FALSE, cell |-> r.Departure_Time],
      [quoted |-> FALSE, cell |-> r.Distance_text],
      [quoted |-> FALSE, cell |-> r.Distance_meters],
      [quoted |-> FALSE, cell |-> r.Duration_text],
      [quoted |-> FALSE, cell |-> r.Duration_seconds]>>

to_csv(rs) == [header |-> CsvHeader, lines |-> [i \in 1..Len(rs) |-> CsvLine(rs[i])]]

\* Off by one.
HasResults_MoreThanOne(rs) == Len(rs) > 1

\* `if results:` of line 109.
HasResults(rs) == Len(rs) > 0

----------------------------------------------------------------------------
(* The script                                                              *)

Init ==
    /\ pc = "idle"
    /\ uploaded_file \in Opt(Files)
    /\ mode \in Modes
    /\ api_key \in Keys
    /\ today = 1
    /\ gmaps = "unbound"
    /\ df = <<>>
    /\ results = <<>>
    /\ idx = 0
    /\ cur = <<>>
    /\ response = <<>>
    /\ queries = <<>>
    /\ messages = <<>>
    /\ download = <<>>

\* Lines 25-30: the button is pressed; the two blocking checks.
Calculate ==
    /\ pc = "idle"
    /\ IF uploaded_file = <<>>
       THEN /\ messages' = Append(messages, Msg("error", "Please upload a CSV file.", <<>>, <<>>))
            /\ pc' = "done"
       ELSE IF Strip(api_key) = <<>>
       THEN /\ messages' = Append(messages, Msg("error", "Please provide a valid Google API key.", <<>>, <<>>))
            /\ pc' = "done"
       ELSE /\ messages' = messages
            /\ pc' = "create_client"
    /\ UNCHANGED <<uploaded_file, mode, api_key, today, gmaps, df, results, idx,
                   cur, response, queries, download>>

\* The except branch ends the run.
CreateClient_Fatal ==
    /\ pc = "create_client"
    /\ \E ok \in BOOLEAN :
          IF ok
          THEN /\ gmaps' = "client"
               /\ messages' = messages
               /\ pc' = "read_csv"
          ELSE /\ gmaps' = gmaps
               /\ messages' = Append(messages, Msg("error", "Error creating Google Maps client", <<>>, <<>>))
               /\ pc' = "done"
    /\ UNCHANGED <<uploaded_file, mode, api_key, today, df, results, idx,
                   cur, response, queries, download>>

\* Lines 32-35: googlemaps.Client(key=api_key) returns or raises; the
\* except branch reports and falls through.
CreateClient ==
    /\ pc = "create_client"
    /\ \E ok \in BOOLEAN :
          IF ok
          THEN /\ gmaps' = "client"
               /\ messages' = messages
          ELSE /\ gmaps' = gmaps
               /\ messages' = Append(messages, Msg("error", "Error creating Google Maps client", <<>>, <<>>))
    /\ pc' = "read_csv"
    /\ UNCHANGED <<uploaded_file, mode, api_key, today, df, results, idx,
                   cur, response, queries, download>>

\* Lines 37-41: pd.read_csv; the except branch reports and falls through.
ReadCsv ==
    /\ pc = "read_csv"
    /\ IF uploaded_file[1].parses
       THEN /\ df' = <<[columns |-> uploaded_file[1].columns, rows |-> uploaded_file[1].rows]>>
            /\ messages' = messages
       ELSE /\ df' = df
            /\ messages' = Append(messages, Msg("error", "Error reading CSV file", <<>>, <<>>))
    /\ pc' = "validate"
    /\ UNCHANGED <<uploaded_file, mode, api_key, today, gmaps, results, idx,
                   cur, response, queries, download>>

\* Lines 43-48: the column check.  With df unbound line 45 raises a
\* NameError nothing catches, and the script run ends there.
ValidateColumns ==
    /\ pc = "validate"
    /\ IF df = <<>>
       THEN /\ pc' = "crashed"
            /\ UNCHANGED <<messages, results, idx>>
       ELSE IF ~AllRequiredPresent(df[1].columns)
       THEN /\ messages' = Append(messages, ColumnsError)
            /\ pc' = "done"
            /\ UNCHANGED <<results, idx>>
       ELSE /\ results' = <<>>
            /\ idx' = 0
            /\ pc' = "row"
            /\ messages' = messages
    /\ UNCHANGED <<uploaded_file, mode, api_key, today, gmaps, df,
                   cur, response, queries, download>>

\* The row iterrows() is at.
Row == df[1].rows[idx + 1]

\* Lines 51-76, up to the call: the strings, the departure time, and the
\* call of gmaps.distance_matrix.  With gmaps unbound the call raises a
\* NameError before the service is reached.
BeginRow ==
    /\ pc = "row"
    /\ idx < Len(df[1].rows)
    /\ LET origin      == FormatPair(Row["OriginLat"], Row["OriginLon"])
           destination == FormatPair(Row["DestLat"], Row["DestLon"])
           ts          == to_datetime(Row["endTime"])
       IN  IF ts = <<>>
           THEN /\ messages' = Append(messages, Msg("error", "Error parsing 'endTime' for row", <<idx>>, <<>>))
                /\ idx' = idx + 1
                /\ pc' = "row"
                /\ UNCHANGED <<cur, response, queries>>
           ELSE LET departure_datetime == Combine(today, TimeOf(ts[1]))
                    c == [origin |-> origin, destination |-> destination,
                          departure_datetime |-> departure_datetime]
                IN  /\ cur' = <<c>>
                    /\ messages' = messages
                    /\ idx' = idx
                    /\ IF gmaps = "client"
                       THEN /\ queries' = Append(queries,
                                    [row |-> idx, origins |-> origin,
                                     destinations |-> destination, mode |-> mode,
                                     departure_time |-> departure_datetime])
                            /\ response' = <<>>
                            /\ pc' = "awaiting"
                       ELSE /\ queries' = queries
                            /\ response' = <<Raised>>
                            /\ pc' = "handle"
    /\ UNCHANGED <<uploaded_file, mode, api_key, today, gmaps, df, results, download>>

\* The blocking call returns a response or raises.
Respond ==
    /\ pc = "awaiting"
    /\ \E r \in Responses : response' = <<r>>
    /\ pc' = "handle"
    /\ UNCHANGED <<uploaded_file, mode, api_key, today, gmaps, df, results, idx,
                   cur, queries, messages, download>>

\* A call that raised is made again.
HandleResponse_Retry ==
    /\ pc = "handle"
    /\ IF response[1].raised
       THEN /\ messages' = Append(messages, Msg("error", "Error fetching data from Google API for row", <<idx>>, <<>>))
            /\ results' = results
            /\ idx' = idx
       ELSE /\ idx' = idx + 1
            /\ LET x == Extract(response[1], mode, cur[1])
               IN  CASE x.kind = "record" ->
                           /\ results' = Append(results, x.rec[1])
                           /\ messages' = messages
                     [] x.kind = "warning" ->
                           /\ messages' = Append(messages, Msg("warning", "API response status not OK. Skipping.", <<idx>>, <<>>))
                           /\ results' = results
                     [] OTHER ->
                           /\ messages' = Append(messages, Msg("error", "Error processing API response for row", <<idx>>, <<>>))
                           /\ results' = results
    /\ cur' = <<>>
    /\ response' = <<>>
    /\ pc' = "row"
    /\ UNCHANGED <<uploaded_file, mode, api_key, today, gmaps, df, queries, download>>

\* Lines 74-106: the except branch of the call, or the extraction.
HandleResponse ==
    /\ pc = "handle"
    /\ IF response[1].raised
       THEN /\ messages' = Append(messages, Msg("error", "Error fetching data from Google API for row", <<idx>>, <<>>))
            /\ results' = results
       ELSE LET x == Extract(response[1], mode, cur[1])
            IN  CASE x.kind = "record" ->
                        /\ results' = Append(results, x.rec[1])
                        /\ messages' = messages
                  [] x.kind = "warning" ->
                        /\ messages' = Append(messages, Msg("warning", "API response status not OK. Skipping.", <<idx>>, <<>>))
                        /\ results' = results
                  [] OTHER ->
                        /\ messages' = Append(messages, Msg("error", "Error processing API response for row", <<idx>>, <<>>))
                        /\ results' = results
    /\ idx' = idx + 1
    /\ cur' = <<>>
    /\ response' = <<>>
    /\ pc' = "row"
    /\ UNCHANGED <<uploaded_file, mode, api_key, today, gmaps, df, queries, download>>

\* Lines 108-122: after the loop.
Export ==
    /\ pc = "row"
    /\ idx = Len(df[1].rows)
    /\ IF HasResults(results)
       THEN /\ download' = <<to_csv(results)>>
            /\ messages' = messages
       ELSE /\ download' = download
            /\ messages' = Append(messages, Msg("info", "No valid results to display.", <<>>, <<>>))
    /\ pc' = "done"
    /\ UNCHANGED <<uploaded_file, mode, api_key, today, gmaps, df, results, idx,
                   cur, response, queries>>

\* Midnight passes.  date.today() is read once per row (line 61), so the
\* clock moves at the point before that read.
Tick ==
    /\ pc = "row"
    /\ today < MaxDay
    /\ today' = today + 1
    /\ UNCHANGED <<pc, uploaded_file, mode, api_key, gmaps, df, results, idx,
                   cur, response, queries, messages, download>>

Next ==
    \/ Calculate
    \/ CreateClient
    \/ ReadCsv
    \/ ValidateColumns
    \/ BeginRow
    \/ Respond
    \/ HandleResponse
    \/ Export
    \/ Tick

Spec == Init /\ [][Next]_vars

----------------------------------------------------------------------------
(* Vocabulary of the properties                                            *)

Last(s) == s[Len(s)]

IsBlank(key) == \A i \in 1..Len(key) : key[i] = " "

TableValid == df # <<>> /\ Required \subseteq df[1].columns

NumRows == Len(df[1].rows)

\* Whether the endTime cell of the row with index label i parses.
Parses(i) == to_datetime(df[1].rows[i + 1]["endTime"]) # <<>>

HasTextAndValue(f) == {"text", "value"} \subseteq DOMAIN f

\* The response in hand carries an element.
HasElement(resp) == resp.rows # <<>> /\ resp.rows[1].elements # <<>>

ElementIn(resp) == resp.rows[1].elements[1]

StatusOK(el) == "status" \in DOMAIN el /\ el["status"] = "OK"

\* The field the duration is to come from: the traffic field for driving
\* when the element has it, the plain duration otherwise.
ChosenField(m, el) ==
    IF m = "driving" /\ "duration_in_traffic" \in DOMAIN el
    THEN "duration_in_traffic"
    ELSE "duration"

\* The stages a row survives according to the text: the call returned,
\* the element is OK, the chosen duration field has text and value.
SurvivesAsStated(resp, m) ==
    /\ ~resp.raised
    /\ HasElement(resp)
    /\ StatusOK(ElementIn(resp))
    /\ ChosenField(m, ElementIn(resp)) \in DOMAIN ElementIn(resp)
    /\ HasTextAndValue(ElementIn(resp)[ChosenField(m, ElementIn(resp))])

\* The same, and a distance field that is present has text and value.
Survives(resp, m) ==
    /\ SurvivesAsStated(resp, m)
    /\ "distance" \in DOMAIN ElementIn(resp)
          => HasTextAndValue(ElementIn(resp)["distance"])

MessagesOfRow(i) == {k \in 1..Len(messages) : messages[k].row = <<i>>}

QueriesOfRow(i) == {k \in 1..Len(queries) : queries[k].row = i}

ClientError == Msg("error", "Error creating Google Maps client", <<>>, <<>>)

NoResultsInfo == Msg("info", "No valid results to display.", <<>>, <<>>)

ClientFailed == \E k \in 1..Len(messages) : messages[k] = ClientError

----------------------------------------------------------------------------
(* C1 *)

\* Text and value of the field k of an element; <<>> when one is missing.
TextAndValue(el, k) ==
    IF k \in DOMAIN el /\ HasTextAndValue(el[k])
    THEN <<el[k].text, el[k].value>>
    ELSE <<>>

\* C1: whenever a record is appended for a response element with status OK,
\* its duration text and seconds are those of the element's
\* duration_in_traffic field if and only if the mode is "driving" and the
\* element has that field; in every other case they are those of its
\* duration field.
C1_DurationSelection ==
    [][(pc = "handle" /\ Len(results') = Len(results) + 1) =>
          LET el == ElementIn(response[1])
              r  == Last(results')
          IN  /\ StatusOK(el)
              /\ <<r.Duration_text, r.Duration_seconds>> =
                    IF mode = "driving" /\ "duration_in_traffic" \in DOMAIN el
                    THEN TextAndValue(el, "duration_in_traffic")
                    ELSE TextAndValue(el, "duration")]_vars

\* A driving run collected a record whose duration is the traffic one, and
\* a second whose duration is the plain one.
C1_Witness ==
    /\ mode = "driving"
    /\ Len(results) = 2
    /\ results[1].Duration_seconds = GoodTraffic.value
    /\ results[1].Duration_text = GoodTraffic.text
    /\ results[2].Duration_seconds = GoodDuration.value

----------------------------------------------------------------------------
(* C2 *)

\* The record the text promises for the row in hand.
PromisedRecord(resp, m, c) ==
    LET el == ElementIn(resp)
    IN  [Origin           |-> c.origin,
         Destination      |-> c.destination,
         Departure_Time   |-> c.departure_datetime,
         Distance_text    |-> IF "distance" \in DOMAIN el
                              THEN el["distance"].text ELSE "N/A",
         Distance_meters  |-> IF "distance" \in DOMAIN el
                              THEN <<el["distance"].value>> ELSE <<>>,
         Duration_text    |-> el[ChosenField(m, el)].text,
         Duration_seconds |-> el[ChosenField(m, el)].value]

\* C2 (as stated): the step that finishes a row appends exactly one record
\* when the call returned, the element is OK and the chosen duration field
\* has text and value, and appends none otherwise.
C2_AsStated ==
    [][pc = "handle" =>
          (Len(results') = Len(results) + 1
              <=> SurvivesAsStated(response[1], mode))]_vars

\* C2 (amended): in a run that passes validation the result list changes
\* only when a row is finished; the step that finishes a row appends the
\* row's one record, behind the records of the earlier rows, when the call
\* returned, the element is OK, the chosen duration field has text and
\* value and a distance field that is present has text and value too, and
\* leaves the list as it is otherwise; a surviving row without a distance
\* field gets the text "N/A" and no value; a row whose endTime does not
\* parse leaves the list as it is.
C2_SurvivorsInOrder ==
    [][/\ pc = "handle" =>
            /\ idx' = idx + 1
            /\ results' =
                 IF Survives(response[1], mode)
                 THEN Append(results, PromisedRecord(response[1], mode, cur[1]))
                 ELSE results
       /\ pc # "handle" => results' = results
       /\ Len(results') <= idx']_vars

\* Two rows survived, the first without a distance field, after an earlier
\* row failed.
C2_Witness ==
    /\ pc = "done"
    /\ TableValid
    /\ NumRows = 2
    /\ Len(results) = 1
    /\ results[1].Distance_text = "N/A"
    /\ results[1].Distance_meters = <<>>
    /\ Len(messages) = 1
    /\ messages[1].row = <<1>>

----------------------------------------------------------------------------
(* C3 *)

\* C3: once the columns are checked, a table with all five required
\* columns (more are allowed) has no column error reported and the run goes
\* on to the rows; a table from which a required column is missing has the
\* error reported and the run is over with no row processed, no query
\* issued, no record and no export.
C3_ColumnValidation ==
    (df # <<>> /\ pc # "validate") =>
        IF Required \subseteq df[1].columns
        THEN /\ pc \in {"row", "awaiting", "handle", "done"}
             /\ \A k \in 1..Len(messages) : messages[k] # ColumnsError
        ELSE /\ pc = "done"
             /\ Last(messages).kind = "error"
             /\ Last(messages).text = "CSV file must contain columns"
             /\ \A k \in 1..(Len(messages) - 1) : messages[k] \in {ClientError}
             /\ idx = 0
             /\ cur = <<>>
             /\ response = <<>>
             /\ queries = <<>>
             /\ results = <<>>
             /\ download = <<>>

\* A table with rows that lacks exactly one required column was rejected.
C3_Witness ==
    /\ pc = "done"
    /\ df # <<>>
    /\ Cardinality(Required \ df[1].columns) = 1
    /\ NumRows = 2
    /\ gmaps = "client"
    /\ Len(messages) = 1

----------------------------------------------------------------------------
(* C4 *)

\* C4: with no file uploaded, or a key that is empty or blank, pressing
\* Calculate reports exactly one error and the run is over: no client is
\* constructed, no file read, no row processed, no query issued; the
\* missing file is the error reported when both are missing.
C4_BlockingChecks ==
    ((uploaded_file = <<>> \/ IsBlank(api_key)) /\ pc # "idle") =>
        /\ pc = "done"
        /\ Len(messages) = 1
        /\ messages[1].kind = "error"
        /\ messages[1].text =
              IF uploaded_file = <<>>
              THEN "Please upload a CSV file."
              ELSE "Please provide a valid Google API key."
        /\ gmaps = "unbound"
        /\ df = <<>>
        /\ idx = 0
        /\ cur = <<>>
        /\ queries = <<>>
        /\ results = <<>>
        /\ download = <<>>

\* A file was uploaded and the key is blank but not empty: the key error.
C4_Witness ==
    /\ pc = "done"
    /\ uploaded_file # <<>>
    /\ api_key = <<" ", " ">>
    /\ Len(messages) = 1
    /\ messages[1].text = "Please provide a valid Google API key."

----------------------------------------------------------------------------
(* C5 *)

NamedColumns(m) == {m.names[i] : i \in 1..Len(m.names)}

\* C5 (as stated): the column error names the required columns that are
\* missing from the table, those and no others.
C5_AsStated ==
    (df # <<>> /\ pc = "done" /\ ~(Required \subseteq df[1].columns)) =>
        NamedColumns(Last(messages)) = Required \ df[1].columns

\* C5 (amended): when column validation fails the error names all five
\* required columns, in the order of the list, whichever of them are
\* missing: every missing column is among the names, and so are the
\* required columns the table has.
C5_NamesAllRequired ==
    (df # <<>> /\ pc = "done" /\ ~(Required \subseteq df[1].columns)) =>
        /\ Last(messages).text = "CSV file must contain columns"
        /\ Last(messages).names =
              <<"OriginLat", "OriginLon", "DestLat", "DestLon", "endTime">>
        /\ (Required \ df[1].columns) \subseteq NamedColumns(Last(messages))

\* Only endTime is missing, and the error names the four present columns too.
C5_Witness ==
    /\ pc = "done"
    /\ df # <<>>
    /\ Required \ df[1].columns = {"endTime"}
    /\ Len(Last(messages).names) = 5

----------------------------------------------------------------------------
(* C6 *)

\* The message the text promises for a row that fails.
RowMsg(kind, text, i) == Msg(kind, text, <<i>>, <<>>)

\* C6: in a run that passes validation every step that finishes a row
\* reports exactly one message carrying the row's index when the row fails
\* (an error for an endTime that does not parse, an error for a call that
\* raised, a warning for an element whose status is not OK, an error for an
\* extraction that failed) and none when the row succeeds; a row whose
\* element status is not OK adds no record; no other step of the loop
\* reports a message carrying a row index.
C6_OneMessagePerFailedRow ==
    [][(pc \in {"row", "awaiting", "handle"}) =>
          IF idx' = idx + 1
          THEN IF pc = "row"
               THEN /\ ~Parses(idx)
                    /\ messages' = Append(messages,
                          RowMsg("error", "Error parsing 'endTime' for row", idx))
                    /\ results' = results
               ELSE IF response[1].raised
               THEN /\ messages' = Append(messages,
                          RowMsg("error", "Error fetching data from Google API for row", idx))
                    /\ results' = results
               ELSE IF HasElement(response[1]) /\ ~StatusOK(ElementIn(response[1]))
               THEN /\ messages' = Append(messages,
                          RowMsg("warning", "API response status not OK. Skipping.", idx))
                    /\ results' = results
               ELSE IF ~Survives(response[1], mode)
               THEN /\ messages' = Append(messages,
                          RowMsg("error", "Error processing API response for row", idx))
                    /\ results' = results
               ELSE /\ messages' = messages
                    /\ Len(results') = Len(results) + 1
          ELSE \A k \in 1..Len(messages') :
                  k > Len(messages) => messages'[k].row = <<>>]_vars

\* Row 0 was skipped with a warning and row 1 with an error, no record.
C6_Witness ==
    /\ pc = "done"
    /\ TableValid
    /\ NumRows = 2
    /\ gmaps = "client"
    /\ results = <<>>
    /\ Len(messages) = 3
    /\ messages[1] = RowMsg("warning", "API response status not OK. Skipping.", 0)
    /\ messages[2] = RowMsg("error", "Error processing API response for row", 1)

----------------------------------------------------------------------------
(* C7 *)

InfoCount == Cardinality({k \in 1..Len(messages) : messages[k].kind = "info"})

\* C7: in a run that passes validation, after the last row: with no record
\* collected (a table without rows included) no file is offered and the
\* "no results" information is the one thing reported at the end; with a
\* record collected the file is offered with one data line per record and
\* no information is reported.  Before the end neither has happened.
C7_ExportOrInfo ==
    TableValid =>
        IF pc = "done"
        THEN IF results = <<>>
             THEN /\ download = <<>>
                  /\ InfoCount = 1
                  /\ Last(messages) = NoResultsInfo
             ELSE /\ download # <<>>
                  /\ Len(download[1].lines) = Len(results)
                  /\ InfoCount = 0
        ELSE download = <<>> /\ InfoCount = 0

\* One of two rows succeeded and the file holds one data line.
C7_Witness ==
    /\ pc = "done"
    /\ TableValid
    /\ NumRows = 2
    /\ Len(results) = 1
    /\ download # <<>>
    /\ Len(download[1].lines) = 1

----------------------------------------------------------------------------
(* C8 *)

\* The departure time the text promises for the row with index label i
\* processed on day d.
PromisedDeparture(i, d) ==
    LET ts == to_datetime(df[1].rows[i + 1]["endTime"])[1]
    IN  [date |-> d, hour |-> ts.hour, minute |-> ts.minute, second |-> ts.second]

\* Hour, minute and second of the parsed endTime of the row with label i.
TimeOfDayOfRow(i) ==
    LET ts == to_datetime(df[1].rows[i + 1]["endTime"])[1]
    IN  <<ts.hour, ts.minute, ts.second>>

\* C8: for a row whose endTime parses, the departure time of the row's
\* query and of its record has the hour, minute and second of the parsed
\* endTime and the date date.today() has when the row is processed; the
\* date of endTime plays no part.  So two queries of one run have the same
\* date exactly when no midnight passed between them, and rows whose
\* endTime differ in the date only, processed the same day, get the same
\* departure time.
C8_DepartureTime ==
    [][/\ (pc = "row" /\ pc' # "row" /\ pc' # "done") =>
             /\ Parses(idx)
             /\ cur'[1].departure_datetime = PromisedDeparture(idx, today)
             /\ Len(queries') = Len(queries) + 1 =>
                   /\ Last(queries').row = idx
                   /\ Last(queries').departure_time = PromisedDeparture(idx, today)
                   /\ \A k \in 1..Len(queries) :
                         /\ queries[k].departure_time.date <= today
                         /\ (/\ queries[k].departure_time.date = today
                             /\ TimeOfDayOfRow(queries[k].row) = TimeOfDayOfRow(idx))
                               => queries[k].departure_time = Last(queries').departure_time
       /\ (pc = "handle" /\ Len(results') = Len(results) + 1) =>
             /\ Last(results').Departure_Time = cur[1].departure_datetime
             /\ Last(queries).row = idx
             /\ Last(results').Departure_Time = Last(queries).departure_time]_vars

\* Two rows whose endTime is of 2023-01-02 and of 2023-01-01 were processed
\* on day 1 and on day 2.
C8_Witness ==
    /\ pc = "done"
    /\ TableValid
    /\ NumRows = 2
    /\ df[1].rows[1]["endTime"] = "2023-01-02 14:30:00"
    /\ df[1].rows[2]["endTime"] = "2023-01-01 14:30:00"
    /\ Len(results) = 2
    /\ results[1].Departure_Time = [date |-> 1, hour |-> 14, minute |-> 30, second |-> 0]
    /\ results[2].Departure_Time = [date |-> 2, hour |-> 14, minute |-> 30, second |-> 0]
    /\ queries[1].departure_time.date = 1
    /\ queries[2].departure_time.date = 2

----------------------------------------------------------------------------
(* C9 *)

FetchError(i) == RowMsg("error", "Error fetching data from Google API for row", i)

\* C9: when the construction of the client failed, its error is the first
\* thing reported and the run goes on: the file is read next and its
\* columns are checked; for a valid table no query is issued and no record
\* collected, every finished row whose endTime parses has the query error
\* of its own as its one message, and the run ends with the "no results"
\* information and no file.
C9_ClientFailureFallsThrough ==
    ClientFailed =>
        /\ messages[1] = ClientError
        /\ gmaps = "unbound"
        /\ pc \in {"read_csv", "validate", "row", "handle", "done", "crashed"}
        /\ pc = "crashed" => df = <<>>
        /\ pc = "done" => df # <<>>
        /\ (pc = "done" /\ ~TableValid) => Last(messages) = ColumnsError
        /\ TableValid =>
              /\ queries = <<>>
              /\ results = <<>>
              /\ download = <<>>
              /\ \A i \in 0..(NumRows - 1) :
                    (i < idx /\ Parses(i)) =>
                        \E k \in 1..Len(messages) :
                            /\ MessagesOfRow(i) = {k}
                            /\ messages[k] = FetchError(i)
              /\ pc = "done" =>
                    /\ idx = NumRows
                    /\ Last(messages) = NoResultsInfo

\* The client could not be constructed, both rows of a valid table failed
\* at the call, and the run ended with the information.
C9_Witness ==
    /\ pc = "done"
    /\ TableValid
    /\ NumRows = 2
    /\ messages = <<ClientError, FetchError(0), FetchError(1), NoResultsInfo>>

----------------------------------------------------------------------------
(* C10 *)

\* The row with index label i has been begun.
Begun(i) == i < idx \/ (i = idx /\ pc \in {"awaiting", "handle"})

StrictlyIncreasingRows ==
    \A j, k \in 1..Len(queries) : j < k => queries[j].row < queries[k].row

\* C10 (as stated): in any run, every row that has been begun and whose
\* endTime parses has had exactly one query issued, and every other row none.
C10_AsStated ==
    TableValid =>
        \A i \in 0..(NumRows - 1) :
            Cardinality(QueriesOfRow(i)) = IF Begun(i) /\ Parses(i) THEN 1 ELSE 0

\* C10 (amended): the service is queried at most once per row and never
\* again for the same row: a row that has been begun and whose endTime
\* parses has had exactly one query issued when the client was constructed,
\* and none when its construction failed; a row whose endTime does not
\* parse, and a row not yet begun, has had none.  The queries are in row
\* order, a row is begun only when the row before it is finished, and there
\* are never more queries than rows.  Without a valid table there is none.
C10_OneQueryPerRow ==
    /\ ~TableValid => queries = <<>>
    /\ TableValid =>
          /\ \A i \in 0..(NumRows - 1) :
                Cardinality(QueriesOfRow(i)) =
                    IF Begun(i) /\ Parses(i) /\ gmaps = "client" THEN 1 ELSE 0
          /\ StrictlyIncreasingRows
          /\ Len(queries) <= NumRows
          /\ pc = "awaiting" => (response = <<>> /\ Last(queries).row = idx)
          /\ pc = "row" => (cur = <<>> /\ response = <<>>)

\* The run is over: row 0 did not parse, the query of row 1 was issued and
\* led to no record, and it was the only query.
C10_Witness ==
    /\ pc = "done"
    /\ TableValid
    /\ NumRows = 2
    /\ gmaps = "client"
    /\ ~Parses(0)
    /\ results = <<>>
    /\ Len(queries) = 1
    /\ queries[1].row = 1

====
